---- MODULE Spec2Model ----
(***************************************************************************)
(* A model of paris-traceroute's entry point (paris-traceroute.c: main and *)
(* loop_handler) and of the enriched output handler                        *)
(* (traceroute_enriched_data.c: traceroute_enriched_handler).              *)
(*                                                                         *)
(* Four specifications share the module:                                   *)
(*   Spec            main(), one action per statement group, from the      *)
(*                   command line to exit()                                *)
(*   SpecLoopHandler loop_handler() fed an arbitrary sequence of events    *)
(*   SpecEnriched    traceroute_enriched_handler() fed an arbitrary        *)
(*                   sequence of MDA events                                *)
(*   SpecMapFree     map_probe_free() run on a map of per-hop vectors      *)
(* Calls into the rest of libparistraceroute (option parser, address       *)
(* helpers, probe, pt_loop) are outcomes chosen with \E at the call.       *)
(***************************************************************************)
EXTENDS Integers, Sequences, FiniteSets, TLC

\* ------------------------------------------------------------------------
\* Program constants
\* ------------------------------------------------------------------------
EXIT_SUCCESS == 0
EXIT_FAILURE == 1
DEFAULT_DST_PORT == 33457
DEFAULT_SRC_PORT == 33456
DNS_PORT == 53
UINT16_MAX == 65535
PAYLOAD_SIZE == 2

\* ------------------------------------------------------------------------
\* Input domains
\* ------------------------------------------------------------------------
\* NoPort / "none" stand for an option that is absent from the command line
\* (and, on the probe skeleton, for a field main has not set).
NoPort == 0 - 1
DstPortArgs == {0, 80, UINT16_MAX}
SrcPortArgs == {1024}
Families == {"AF_INET", "AF_INET6"}
\* What address_guess_family may store in family when it succeeds.
GuessedFamilies == Families \cup {"AF_UNSPEC"}
\* What an uninitialised `const char *` may happen to point to.
IndeterminateNames == {"udp", "icmpv4", "icmpv6", "<garbage>"}

Argv ==
    [ opt4 : BOOLEAN, opt6 : BOOLEAN, U : BOOLEAN, I : BOOLEAN,
      P    : {"none", "udp", "icmp"},
      a    : {"none", "paris-traceroute", "mda"},
      d    : {NoPort} \cup DstPortArgs,
      s    : {NoPort} \cup SrcPortArgs,
      mda  : BOOLEAN ]

VARIABLES
    \* ---- main ----
    argv,             \* the options on the command line
    pc,               \* position in main
    err,              \* the ERR_* label main jumped to ("none" if it has not)
    exit_code,
    options,          \* options_t * : "uninit" | "NULL" | "live"
    parsed,           \* options_parse returned 1
    is_ipv4, is_ipv6, is_udp, is_icmp,
    algorithm_names, protocol_names,
    dst_port, src_port,
    mda_is_set,       \* options_mda_get_is_set()
    family, ip_protocol_name, protocol_name, algorithm_name,
    algorithm_options,
    dst_addr,         \* address_from_string filled dst_addr
    dst_ip_num,       \* "uninit" | "live" | "freed"
    probe,            \* "uninit" | "NULL" | "live" | "freed"
    loop,             \* "uninit" | "NULL" | "live" | "freed"
    skel,             \* what main has put on the probe skeleton
    instance_added,   \* pt_algorithm_add returned true
    loop_ret,         \* what pt_loop returned ("none" before the call)
    frees,            \* release calls made so far, in order
    \* ---- loop_handler ----
    lh_events,        \* events delivered so far
    lh_terminate,     \* number of pt_loop_terminate(loop) calls
    lh_out,           \* what the handler printed or forwarded
    \* ---- traceroute_enriched_handler ----
    use_json, use_xml,   \* USE_FORMAT_JSON / USE_FORMAT_XML of the build
    format,              \* user_data->format
    is_first_result,     \* user_data->is_first_result
    te_events,           \* event types handled so far
    te_stdout,           \* tokens written to stdout
    te_stderr,           \* tokens written to stderr
    \* ---- map_probe_free ----
    mf_pc,               \* position in map_probe_free
    mf_min_ttl,          \* options_traceroute_get_min_ttl()
    mf_max_ttl,          \* options_traceroute_get_max_ttl()
    mf_i,                \* the loop index i
    mf_frees             \* per ttl key of the map: free() calls on its vector

mainVars ==
    << argv, pc, err, exit_code, options, parsed, is_ipv4, is_ipv6, is_udp,
       is_icmp, algorithm_names, protocol_names, dst_port, src_port,
       mda_is_set, family, ip_protocol_name, protocol_name, algorithm_name,
       algorithm_options, dst_addr, dst_ip_num, probe, loop, skel,
       instance_added, loop_ret, frees >>
lhVars == << lh_events, lh_terminate, lh_out >>
teVars == << use_json, use_xml, format, is_first_result, te_events,
             te_stdout, te_stderr >>
mfVars == << mf_pc, mf_min_ttl, mf_max_ttl, mf_i, mf_frees >>
vars == << mainVars, lhVars, teVars, mfVars >>

\* ------------------------------------------------------------------------
\* Option parser (optparse.c / options.c): the stores that runnable_options
\* binds to each flag
\* ------------------------------------------------------------------------
\* opt_store_1: the flag, when present, stores true.
opt_store_1(present) == present

\* opt_store_choice: the chosen name, when given, is moved to names[0].
opt_store_choice(names, choice) ==
    IF choice = "none" THEN names
    ELSE << choice >> \o SelectSeq(names, LAMBDA n : n # choice)

\* opt_store_int_lim_en: the value goes to data[0] and data[3] is set to 1.
\* (C index i is index i + 1 here.)
opt_store_int_lim_en(data, arg) ==
    IF arg = NoPort THEN data ELSE [data EXCEPT ![1] = arg, ![4] = 1]

\* ------------------------------------------------------------------------
\* main: control flow helpers
\* ------------------------------------------------------------------------
\* Where each ERR_* label lands in the cleanup chain (lines 351-373): the
\* labels fall through, so a label's position is the first statement after it.
LabelPc(label) ==
    CASE label \in {"ERR_PT_LOOP", "ERR_INSTANCE", "ERR_UNKNOWN_ALGORITHM"}
             -> "probe_free"
      [] label \in {"ERR_FAMILY2", "ERR_PROBE_SKEL"}
             -> "pt_loop_free"
      [] label = "ERR_LOOP_CREATE"
             -> "free_dst_ip_num"
      [] label \in {"ERR_ADDRESS_TO_STRING", "ERR_ADDRESS_IP_FROM_STRING",
                    "ERR_FAMILY", "ERR_ADDRESS_GUESS_FAMILY",
                    "ERR_IP_VERSIONS_CONFLICT", "ERR_INVALID_ALGORITHM"}
             -> "perror"
      [] label \in {"ERR_OPT_PARSE", "ERR_INIT_OPTIONS"}
             -> "exit"

Goto(label) == pc' = LabelPc(label) /\ err' = label

\* The empty probe skeleton returned by probe_create.
EmptySkel ==
    [ ip_protocol |-> "none", protocol |-> "none", dst_ip |-> FALSE,
      dst_port |-> NoPort, src_port |-> NoPort, payload |-> NoPort ]

InitMain ==
    /\ argv \in Argv
    /\ pc = "init_options"
    /\ err = "none"
    /\ exit_code = EXIT_FAILURE
    /\ options = "uninit"
    /\ parsed = FALSE
    /\ is_ipv4 = FALSE /\ is_ipv6 = FALSE /\ is_udp = FALSE /\ is_icmp = FALSE
    /\ algorithm_names = << "paris-traceroute", "mda" >>
    /\ protocol_names = << "udp", "icmp" >>
    /\ dst_port = << DEFAULT_DST_PORT, 0, UINT16_MAX, 0 >>
    /\ src_port = << DEFAULT_SRC_PORT, 0, UINT16_MAX, 1 >>
    /\ mda_is_set = FALSE
    /\ family = "uninit"
    /\ ip_protocol_name = "uninit"
    /\ protocol_name = "uninit"
    /\ algorithm_name = "uninit"
    /\ algorithm_options = "uninit"
    /\ dst_addr = FALSE
    /\ dst_ip_num = "uninit"
    /\ probe = "uninit"
    /\ loop = "uninit"
    /\ skel = EmptySkel
    /\ instance_added = FALSE
    /\ loop_ret = << >>
    /\ frees = << >>

\* ------------------------------------------------------------------------
\* main: option handling (lines 183-233)
\* ------------------------------------------------------------------------
\* if (!(options = init_options(version))) goto ERR_INIT_OPTIONS;
InitOptions ==
    /\ pc = "init_options"
    /\ \E ok \in BOOLEAN :
         IF ok THEN /\ options' = "live"
                    /\ pc' = "options_parse"
                    /\ err' = err
               ELSE /\ options' = "NULL"
                    /\ Goto("ERR_INIT_OPTIONS")
    /\ UNCHANGED << mfVars, lhVars, teVars, argv, exit_code, parsed, is_ipv4, is_ipv6, is_udp, is_icmp,
                    algorithm_names, protocol_names, dst_port, src_port,
                    mda_is_set, family, ip_protocol_name, protocol_name,
                    algorithm_name, algorithm_options, dst_addr, dst_ip_num,
                    probe, loop, skel, instance_added, loop_ret, frees >>

\* if (options_parse(options, usage, argv) != 1) goto ERR_OPT_PARSE;
OptionsParse ==
    /\ pc = "options_parse"
    /\ \E ret \in {0, 1} :
         IF ret = 1
         THEN /\ parsed' = TRUE
              /\ is_ipv4' = opt_store_1(argv.opt4)
              /\ is_ipv6' = opt_store_1(argv.opt6)
              /\ is_udp'  = opt_store_1(argv.U)
              /\ is_icmp' = opt_store_1(argv.I)
              /\ algorithm_names' = opt_store_choice(algorithm_names, argv.a)
              /\ protocol_names'  = opt_store_choice(protocol_names, argv.P)
              /\ dst_port' = opt_store_int_lim_en(dst_port, argv.d)
              /\ src_port' = opt_store_int_lim_en(src_port, argv.s)
              /\ mda_is_set' = argv.mda
              /\ pc' = "check_mda"
              /\ err' = err
         ELSE /\ Goto("ERR_OPT_PARSE")
              /\ UNCHANGED << parsed, is_ipv4, is_ipv6, is_udp, is_icmp,
                              algorithm_names, protocol_names, dst_port,
                              src_port, mda_is_set >>
    /\ UNCHANGED << mfVars, lhVars, teVars, argv, exit_code, options, family, ip_protocol_name,
                    protocol_name, algorithm_name, algorithm_options,
                    dst_addr, dst_ip_num, probe, loop, skel, instance_added,
                    loop_ret, frees >>

\* The check with the comparison against "mda" left out.
MdaOptionsMisused_NoAlgorithm(is_set, name) == is_set

\* The test of lines 201-202: MDA options were passed and the algorithm is
\* not "mda".
MdaOptionsMisused(is_set, name) == is_set /\ name # "mda"

\* algorithm_name = algorithm_names[0]; the MDA option consistency check.
CheckMda ==
    /\ pc = "check_mda"
    /\ algorithm_name' = algorithm_names[1]
    /\ IF MdaOptionsMisused(mda_is_set, algorithm_names[1])
       THEN Goto("ERR_INVALID_ALGORITHM")
       ELSE pc' = "select_family" /\ err' = err
    /\ UNCHANGED << mfVars, lhVars, teVars, argv, exit_code, options, parsed, is_ipv4, is_ipv6, is_udp,
                    is_icmp, algorithm_names, protocol_names, dst_port,
                    src_port, mda_is_set, family, ip_protocol_name,
                    protocol_name, algorithm_options, dst_addr, dst_ip_num,
                    probe, loop, skel, instance_added, loop_ret, frees >>

\* Lines 211-221: -4 / -6 / address_guess_family.
SelectFamily ==
    /\ pc = "select_family"
    /\ IF is_ipv4 /\ ~is_ipv6
       THEN family' = "AF_INET" /\ pc' = "family_switch" /\ err' = err
       ELSE IF is_ipv6 /\ ~is_ipv4
       THEN family' = "AF_INET6" /\ pc' = "family_switch" /\ err' = err
       ELSE IF is_ipv4 /\ is_ipv6
       THEN family' = family /\ Goto("ERR_IP_VERSIONS_CONFLICT")
       ELSE \E ok \in BOOLEAN :
              IF ok
              THEN /\ family' \in GuessedFamilies
                   /\ pc' = "family_switch" /\ err' = err
              ELSE /\ family' = family
                   /\ Goto("ERR_ADDRESS_GUESS_FAMILY")
    /\ UNCHANGED << mfVars, lhVars, teVars, argv, exit_code, options, parsed, is_ipv4, is_ipv6, is_udp,
                    is_icmp, algorithm_names, protocol_names, dst_port,
                    src_port, mda_is_set, ip_protocol_name, protocol_name,
                    algorithm_name, algorithm_options, dst_addr, dst_ip_num,
                    probe, loop, skel, instance_added, loop_ret, frees >>

\* Lines 223-233: switch (family).
FamilySwitch ==
    /\ pc = "family_switch"
    /\ IF family = "AF_INET"
       THEN ip_protocol_name' = "ipv4" /\ pc' = "address_from_string"
            /\ err' = err
       ELSE IF family = "AF_INET6"
       THEN ip_protocol_name' = "ipv6" /\ pc' = "address_from_string"
            /\ err' = err
       ELSE ip_protocol_name' = ip_protocol_name /\ Goto("ERR_FAMILY")
    /\ UNCHANGED << mfVars, lhVars, teVars, argv, exit_code, options, parsed, is_ipv4, is_ipv6, is_udp,
                    is_icmp, algorithm_names, protocol_names, dst_port,
                    src_port, mda_is_set, family, protocol_name,
                    algorithm_name, algorithm_options, dst_addr, dst_ip_num,
                    probe, loop, skel, instance_added, loop_ret, frees >>

\* ------------------------------------------------------------------------
\* main: address resolution and probe skeleton (lines 236-289)
\* ------------------------------------------------------------------------
\* if (address_from_string(family, dst_ip, &dst_addr) != 0) goto ...;
AddressFromString ==
    /\ pc = "address_from_string"
    /\ \E ok \in BOOLEAN :
         IF ok THEN dst_addr' = TRUE /\ pc' = "address_to_string" /\ err' = err
               ELSE dst_addr' = dst_addr /\ Goto("ERR_ADDRESS_IP_FROM_STRING")
    /\ UNCHANGED << mfVars, lhVars, teVars, argv, exit_code, options, parsed, is_ipv4, is_ipv6, is_udp,
                    is_icmp, algorithm_names, protocol_names, dst_port,
                    src_port, mda_is_set, family, ip_protocol_name,
                    protocol_name, algorithm_name, algorithm_options,
                    dst_ip_num, probe, loop, skel, instance_added, loop_ret,
                    frees >>

\* if (address_to_string(&dst_addr, &dst_ip_num) != 0) goto ...;
AddressToString ==
    /\ pc = "address_to_string"
    /\ \E ok \in BOOLEAN :
         IF ok THEN dst_ip_num' = "live" /\ pc' = "probe_create" /\ err' = err
               ELSE dst_ip_num' = dst_ip_num /\ Goto("ERR_ADDRESS_TO_STRING")
    /\ UNCHANGED << mfVars, lhVars, teVars, argv, exit_code, options, parsed, is_ipv4, is_ipv6, is_udp,
                    is_icmp, algorithm_names, protocol_names, dst_port,
                    src_port, mda_is_set, family, ip_protocol_name,
                    protocol_name, algorithm_name, algorithm_options,
                    dst_addr, probe, loop, skel, instance_added, loop_ret,
                    frees >>

\* if (!(probe = probe_create())) goto ERR_PROBE_SKEL;
ProbeCreate ==
    /\ pc = "probe_create"
    /\ \E ok \in BOOLEAN :
         IF ok THEN probe' = "live" /\ pc' = "select_protocol" /\ err' = err
               ELSE probe' = "NULL" /\ Goto("ERR_PROBE_SKEL")
    /\ UNCHANGED << mfVars, lhVars, teVars, argv, exit_code, options, parsed, is_ipv4, is_ipv6, is_udp,
                    is_icmp, algorithm_names, protocol_names, dst_port,
                    src_port, mda_is_set, family, ip_protocol_name,
                    protocol_name, algorithm_name, algorithm_options,
                    dst_addr, dst_ip_num, loop, skel, instance_added,
                    loop_ret, frees >>

\* Lines 258-270: the value of protocol_name after `if (is_icmp) switch
\* (family)`, given its value before; "goto" for the default case.
TransportName(icmp, fam, before) ==
    IF icmp
    THEN CASE fam = "AF_INET"  -> "icmpv4"
           [] fam = "AF_INET6" -> "icmpv6"
           [] OTHER            -> "goto"
    ELSE before

\* Lines 253-270.
SelectProtocol ==
    /\ pc = "select_protocol"
    /\ is_icmp' = (is_icmp \/ protocol_names[1] = "icmp")
    /\ is_udp'  = (is_udp  \/ protocol_names[1] = "udp")
    /\ LET name == TransportName(is_icmp', family, protocol_name) IN
         IF name = "goto"
         THEN protocol_name' = protocol_name /\ Goto("ERR_FAMILY2")
         ELSE protocol_name' = name /\ pc' = "prepare_probe" /\ err' = err
    /\ UNCHANGED << mfVars, lhVars, teVars, argv, exit_code, options, parsed, is_ipv4, is_ipv6,
                    algorithm_names, protocol_names, dst_port, src_port,
                    mda_is_set, family, ip_protocol_name, algorithm_name,
                    algorithm_options, dst_addr, dst_ip_num, probe, loop,
                    skel, instance_added, loop_ret, frees >>

\* I16(name, value): the value as a 16-bit field.
I16(value) == value % (UINT16_MAX + 1)

\* Lines 276-284: the ports and payload set under `if (!is_icmp)`.
SetUdpFields(sk, icmp, dport, sport) ==
    IF ~icmp
    THEN [sk EXCEPT !.dst_port = I16(dport[1]), !.src_port = I16(sport[1]),
                    !.payload = PAYLOAD_SIZE]
    ELSE sk

\* Lines 286-289: `if (is_udp && !dst_port[3])` sets dst_port to 53.
SetDnsPort(sk, udp, dport) ==
    IF udp /\ dport[4] = 0 THEN [sk EXCEPT !.dst_port = I16(DNS_PORT)] ELSE sk

\* Lines 273-289: the skeleton after main has prepared it; `name` is the
\* value read from protocol_name.
PrepareSkel(sk, ipname, name, icmp, udp, dport, sport) ==
    SetDnsPort(
        SetUdpFields([sk EXCEPT !.ip_protocol = ipname, !.protocol = name,
                                !.dst_ip = TRUE],
                     icmp, dport, sport),
        udp, dport)

\* Lines 273-289.  protocol_name is read here; when no statement has assigned
\* it the read is of an indeterminate pointer: probe_set_protocols receives
\* any value, or the process faults while dereferencing it.
PrepareProbe ==
    /\ pc = "prepare_probe"
    /\ \/ /\ \E name \in (IF protocol_name = "uninit" THEN IndeterminateNames
                                                     ELSE {protocol_name}) :
               skel' = PrepareSkel(skel, ip_protocol_name, name, is_icmp,
                                   is_udp, dst_port, src_port)
          /\ pc' = "algorithm_options"
       \/ /\ protocol_name = "uninit"
          /\ pc' = "crashed"
          /\ skel' = skel
    /\ UNCHANGED << mfVars, lhVars, teVars, argv, err, exit_code, options, parsed, is_ipv4, is_ipv6,
                    is_udp, is_icmp, algorithm_names, protocol_names,
                    dst_port, src_port, mda_is_set, family, ip_protocol_name,
                    protocol_name, algorithm_name, algorithm_options,
                    dst_addr, dst_ip_num, probe, loop, instance_added,
                    loop_ret, frees >>

\* ------------------------------------------------------------------------
\* main: algorithm, loop (lines 291-349)
\* ------------------------------------------------------------------------
\* Lines 291-319.
AlgorithmOptions ==
    /\ pc = "algorithm_options"
    /\ IF algorithm_name = "paris-traceroute"
       THEN /\ algorithm_options' = "traceroute_options"
            /\ algorithm_name' = "traceroute"
            /\ pc' = "loop_create" /\ err' = err
       ELSE IF algorithm_name = "mda" \/ mda_is_set
       THEN /\ algorithm_options' = "mda_options"
            /\ algorithm_name' = algorithm_name
            /\ pc' = "loop_create" /\ err' = err
       ELSE /\ UNCHANGED << algorithm_options, algorithm_name >>
            /\ Goto("ERR_UNKNOWN_ALGORITHM")
    /\ UNCHANGED << mfVars, lhVars, teVars, argv, exit_code, options, parsed, is_ipv4, is_ipv6, is_udp,
                    is_icmp, algorithm_names, protocol_names, dst_port,
                    src_port, mda_is_set, family, ip_protocol_name,
                    protocol_name, dst_addr, dst_ip_num, probe, loop, skel,
                    instance_added, loop_ret, frees >>

\* if (!(loop = pt_loop_create(loop_handler, NULL))) goto ERR_LOOP_CREATE;
LoopCreate ==
    /\ pc = "loop_create"
    /\ \E ok \in BOOLEAN :
         IF ok THEN loop' = "live" /\ pc' = "algorithm_add" /\ err' = err
               ELSE loop' = "NULL" /\ Goto("ERR_LOOP_CREATE")
    /\ UNCHANGED << mfVars, lhVars, teVars, argv, exit_code, options, parsed, is_ipv4, is_ipv6, is_udp,
                    is_icmp, algorithm_names, protocol_names, dst_port,
                    src_port, mda_is_set, family, ip_protocol_name,
                    protocol_name, algorithm_name, algorithm_options,
                    dst_addr, dst_ip_num, probe, skel, instance_added,
                    loop_ret, frees >>

\* Lines 327-342: if (!pt_algorithm_add(loop, ...)) goto ERR_INSTANCE;
AlgorithmAdd ==
    /\ pc = "algorithm_add"
    /\ \E ok \in BOOLEAN :
         IF ok THEN instance_added' = TRUE /\ pc' = "pt_loop" /\ err' = err
               ELSE instance_added' = FALSE /\ Goto("ERR_INSTANCE")
    /\ UNCHANGED << mfVars, lhVars, teVars, argv, exit_code, options, parsed, is_ipv4, is_ipv6, is_udp,
                    is_icmp, algorithm_names, protocol_names, dst_port,
                    src_port, mda_is_set, family, ip_protocol_name,
                    protocol_name, algorithm_name, algorithm_options,
                    dst_addr, dst_ip_num, probe, loop, skel, loop_ret,
                    frees >>

\* What pt_loop may return.
LoopRets == {0 - 1, 0, 1}

\* Lines 345-349: the exit code main holds after pt_loop returned `ret`, and
\* whether it jumps to ERR_PT_LOOP.
LoopInterrupted(ret) == ret < 0
\* exit_code = EXIT_SUCCESS placed ahead of the test of pt_loop's result.
ExitCodeAfterLoop_Early(ret, before) == EXIT_SUCCESS
ExitCodeAfterLoop(ret, before) ==
    IF LoopInterrupted(ret) THEN before ELSE EXIT_SUCCESS

PtLoop ==
    /\ pc = "pt_loop"
    /\ \E ret \in LoopRets :
         /\ loop_ret' = << ret >>
         /\ exit_code' = ExitCodeAfterLoop(ret, exit_code)
         /\ IF LoopInterrupted(ret)
            THEN Goto("ERR_PT_LOOP")
            ELSE pc' = "probe_free" /\ err' = err
    /\ UNCHANGED << mfVars, lhVars, teVars, argv, options, parsed, is_ipv4, is_ipv6, is_udp,
                    is_icmp, algorithm_names, protocol_names, dst_port,
                    src_port, mda_is_set, family, ip_protocol_name,
                    protocol_name, algorithm_name, algorithm_options,
                    dst_addr, dst_ip_num, probe, loop, skel, instance_added,
                    frees >>

\* ------------------------------------------------------------------------
\* main: cleanup chain (lines 351-373)
\* ------------------------------------------------------------------------
Release(fn, state) == [fn |-> fn, arg |-> state]

\* probe_free(probe);
ProbeFree ==
    /\ pc = "probe_free"
    /\ frees' = Append(frees, Release("probe_free", probe))
    /\ probe' = "freed"
    /\ pc' = "pt_loop_free"
    /\ UNCHANGED << mfVars, lhVars, teVars, argv, err, exit_code, options, parsed, is_ipv4, is_ipv6,
                    is_udp, is_icmp, algorithm_names, protocol_names,
                    dst_port, src_port, mda_is_set, family, ip_protocol_name,
                    protocol_name, algorithm_name, algorithm_options,
                    dst_addr, dst_ip_num, loop, skel, instance_added,
                    loop_ret >>

\* pt_loop_free(loop);  When loop was never assigned the argument is an
\* indeterminate pointer: the call faults, or returns having released
\* something that is not a loop.
PtLoopFree ==
    /\ pc = "pt_loop_free"
    /\ frees' = Append(frees, Release("pt_loop_free", loop))
    /\ \/ /\ loop = "live"
          /\ loop' = "freed"
          /\ pc' = "free_dst_ip_num"
       \/ /\ loop # "live"
          /\ loop' = loop
          /\ pc' \in {"crashed", "free_dst_ip_num"}
    /\ UNCHANGED << mfVars, lhVars, teVars, argv, err, exit_code, options, parsed, is_ipv4, is_ipv6,
                    is_udp, is_icmp, algorithm_names, protocol_names,
                    dst_port, src_port, mda_is_set, family, ip_protocol_name,
                    protocol_name, algorithm_name, algorithm_options,
                    dst_addr, dst_ip_num, probe, skel, instance_added,
                    loop_ret >>

\* if (dst_ip_num) free(dst_ip_num);
FreeDstIpNum ==
    /\ pc = "free_dst_ip_num"
    /\ frees' = Append(frees, Release("free", dst_ip_num))
    /\ dst_ip_num' = "freed"
    /\ pc' = "perror"
    /\ UNCHANGED << mfVars, lhVars, teVars, argv, err, exit_code, options, parsed, is_ipv4, is_ipv6,
                    is_udp, is_icmp, algorithm_names, protocol_names,
                    dst_port, src_port, mda_is_set, family, ip_protocol_name,
                    protocol_name, algorithm_name, algorithm_options,
                    dst_addr, probe, loop, skel, instance_added, loop_ret >>

\* if (errno) perror(gai_strerror(errno));
Perror ==
    /\ pc = "perror"
    /\ pc' = "exit"
    /\ UNCHANGED << mfVars, lhVars, teVars, argv, err, exit_code, options, parsed, is_ipv4, is_ipv6,
                    is_udp, is_icmp, algorithm_names, protocol_names,
                    dst_port, src_port, mda_is_set, family, ip_protocol_name,
                    protocol_name, algorithm_name, algorithm_options,
                    dst_addr, dst_ip_num, probe, loop, skel, instance_added,
                    loop_ret, frees >>

\* exit(exit_code);
Exit ==
    /\ pc = "exit"
    /\ pc' = "exited"
    /\ UNCHANGED << mfVars, lhVars, teVars, argv, err, exit_code, options, parsed, is_ipv4, is_ipv6,
                    is_udp, is_icmp, algorithm_names, protocol_names,
                    dst_port, src_port, mda_is_set, family, ip_protocol_name,
                    protocol_name, algorithm_name, algorithm_options,
                    dst_addr, dst_ip_num, probe, loop, skel, instance_added,
                    loop_ret, frees >>

NextMain ==
    \/ InitOptions \/ OptionsParse \/ CheckMda \/ SelectFamily
    \/ FamilySwitch \/ AddressFromString \/ AddressToString \/ ProbeCreate
    \/ SelectProtocol \/ PrepareProbe \/ AlgorithmOptions \/ LoopCreate
    \/ AlgorithmAdd \/ PtLoop \/ ProbeFree \/ PtLoopFree \/ FreeDstIpNum
    \/ Perror \/ Exit

\* ------------------------------------------------------------------------
\* loop_handler (paris-traceroute.c, lines 90-135)
\* ------------------------------------------------------------------------
MaxLoopEvents == 3

EventTypes == {"ALGORITHM_TERMINATED", "ALGORITHM_EVENT", "ALGORITHM_ERROR"}
AlgorithmNames == {"mda", "traceroute", "other"}
\* event->data->type of an ALGORITHM_EVENT
InnerTypes == {"MDA_NEW_LINK", "MDA_PROBE_REPLY"}

Events == [type : EventTypes, algorithm : AlgorithmNames, inner : InnerTypes]

\* pt_loop_terminate(loop) placed inside the `if mda` block.
TerminateCalls_MdaOnly(event) ==
    IF event.type = "ALGORITHM_TERMINATED" /\ event.algorithm = "mda"
    THEN 1 ELSE 0

\* Number of pt_loop_terminate(loop) calls loop_handler makes for `event`.
TerminateCalls(event) ==
    IF event.type = "ALGORITHM_TERMINATED" THEN 1 ELSE 0

\* What loop_handler prints, dumps or forwards for `event`.
HandlerOutput(event) ==
    CASE event.type = "ALGORITHM_TERMINATED" ->
           IF event.algorithm = "mda" THEN << "lattice_dump" >> ELSE << >>
      [] event.type = "ALGORITHM_EVENT" ->
           IF event.algorithm = "mda"
           THEN IF event.inner = "MDA_NEW_LINK" THEN << "mda_link_dump" >>
                                                ELSE << >>
           ELSE IF event.algorithm = "traceroute"
           THEN << "traceroute_handler" >>
           ELSE << >>
      [] OTHER -> << >>

InitLoopHandler ==
    /\ lh_events = << >>
    /\ lh_terminate = 0
    /\ lh_out = << >>

\* One call of loop_handler(loop, event, user_data).
loop_handler ==
    /\ Len(lh_events) < MaxLoopEvents
    /\ \E event \in Events :
         /\ lh_events' = Append(lh_events, event)
         /\ lh_terminate' = lh_terminate + TerminateCalls(event)
         /\ lh_out' = lh_out \o HandlerOutput(event)
    /\ UNCHANGED << mainVars, teVars, mfVars >>

\* ------------------------------------------------------------------------
\* traceroute_enriched_handler (traceroute_enriched_data.c, lines 35-124)
\* ------------------------------------------------------------------------
MaxMdaEvents == 4

MdaEventTypes ==
    {"MDA_PROBE_REPLY", "MDA_PROBE_TIMEOUT", "MDA_ENDS", "MDA_NEW_LINK"}

\* The output formats a build offers.
Formats(json, xml) ==
    {"DEFAULT"} \cup (IF json THEN {"JSON"} ELSE {})
                \cup (IF xml THEN {"XML"} ELSE {})

\* One piece of output; `type` is the event type the piece was written for.
Tok(tok, type) == [tok |-> tok, type |-> type]

\* Lines 57-69 and 83-95, FORMAT_JSON case: the separator written before an
\* item, and is_first_result afterwards.
Separator(first, type) == IF first THEN << >> ELSE << Tok("sep", type) >>
\* is_first_result never cleared.
FirstAfterItem_Kept(first) == first
FirstAfterItem(first) == FALSE

\* Lines 47-78: MDA_PROBE_REPLY.
ReplyStdout(fmt, first, type) ==
    IF fmt = "JSON" THEN Separator(first, type) \o << Tok("reply", type) >>
    ELSE << >>

\* Lines 80-102: MDA_PROBE_TIMEOUT.
TimeoutStdout(fmt, first, type) ==
    IF fmt = "JSON" THEN Separator(first, type) \o << Tok("star", type) >>
    ELSE << >>

\* Line 121, the `default:` label of the outer switch.
Unhandled(type) == << Tok("unhandled", type) >>

\* Lines 104-122: MDA_ENDS; the outer case has no break and runs on into
\* `default:`.
EndsStdout(fmt, type) ==
    (IF fmt = "JSON" THEN << Tok("footer", type) >> ELSE << >>)
        \o Unhandled(type)

\* What one call writes to stdout.
HandlerStdout(fmt, first, type) ==
    CASE type = "MDA_PROBE_REPLY"   -> ReplyStdout(fmt, first, type)
      [] type = "MDA_PROBE_TIMEOUT" -> TimeoutStdout(fmt, first, type)
      [] type = "MDA_ENDS"          -> EndsStdout(fmt, type)
      [] OTHER                      -> Unhandled(type)

\* What one call writes to stderr.
HandlerStderr(fmt, type) ==
    IF fmt = "XML" /\ type \in {"MDA_PROBE_REPLY", "MDA_PROBE_TIMEOUT",
                                "MDA_ENDS"}
    THEN << Tok("Not yet implemented", type) >>
    ELSE << >>

\* user_data->is_first_result after one call.
HandlerFirst(fmt, first, type) ==
    IF fmt = "JSON" /\ type \in {"MDA_PROBE_REPLY", "MDA_PROBE_TIMEOUT"}
    THEN FirstAfterItem(first)
    ELSE first

InitEnriched ==
    /\ use_json \in BOOLEAN
    /\ use_xml \in BOOLEAN
    /\ format \in Formats(use_json, use_xml)
    /\ is_first_result = TRUE
    /\ te_events = << >>
    /\ te_stdout = << >>
    /\ te_stderr = << >>

\* One call of traceroute_enriched_handler(loop, mda_event, ..., user_data,
\* sorted_print).
traceroute_enriched_handler ==
    /\ Len(te_events) < MaxMdaEvents
    /\ \E type \in MdaEventTypes :
         /\ te_events' = Append(te_events, type)
         /\ te_stdout' = te_stdout \o HandlerStdout(format, is_first_result,
                                                    type)
         /\ te_stderr' = te_stderr \o HandlerStderr(format, type)
         /\ is_first_result' = HandlerFirst(format, is_first_result, type)
    /\ UNCHANGED << mainVars, lhVars, mfVars, use_json, use_xml, format >>

\* ------------------------------------------------------------------------
\* map_probe_free (traceroute_enriched_data.c, lines 25-33)
\* ------------------------------------------------------------------------
MaxTtl == 5

\* The ttl keys of a map: the hops from min_ttl up to the largest hop that
\* was observed (none when observed < min_ttl).
MapKeys(min_ttl, observed) == min_ttl .. observed

IdleMapFree ==
    /\ mf_pc = "idle"
    /\ mf_min_ttl = 1
    /\ mf_max_ttl = 1
    /\ mf_i = 1
    /\ mf_frees = << >>

\* The state on entry: a map whose vectors are all allocated, and i = 1.
InitMapFree ==
    /\ mf_pc = "loop"
    /\ mf_max_ttl \in 1 .. MaxTtl
    /\ mf_min_ttl \in 1 .. mf_max_ttl
    /\ mf_i = 1
    /\ \E observed \in (mf_min_ttl - 1) .. mf_max_ttl :
         mf_frees = [k \in MapKeys(mf_min_ttl, observed) |-> 0]

\* The loop condition `i < options_traceroute_get_max_ttl()`.
LoopCondition(i, max_ttl) == i < max_ttl

\* One iteration: if (map_find(map, &i, &replies_by_ttl_i)) free(...); ++i.
MapProbeFreeIter ==
    /\ mf_pc = "loop"
    /\ LoopCondition(mf_i, mf_max_ttl)
    /\ mf_frees' = IF mf_i \in DOMAIN mf_frees
                   THEN [mf_frees EXCEPT ![mf_i] = @ + 1]
                   ELSE mf_frees
    /\ mf_i' = mf_i + 1
    /\ UNCHANGED << mainVars, lhVars, teVars, mf_pc, mf_min_ttl, mf_max_ttl >>

\* The loop condition fails and map_probe_free returns.
MapProbeFreeReturn ==
    /\ mf_pc = "loop"
    /\ ~LoopCondition(mf_i, mf_max_ttl)
    /\ mf_pc' = "returned"
    /\ UNCHANGED << mainVars, lhVars, teVars, mf_min_ttl, mf_max_ttl, mf_i,
                    mf_frees >>

\* ------------------------------------------------------------------------
\* Specifications
\* ------------------------------------------------------------------------
\* The components a specification does not run stay as constructed.
IdleMain ==
    /\ argv = [opt4 |-> FALSE, opt6 |-> FALSE, U |-> FALSE, I |-> FALSE,
               P |-> "none", a |-> "none", d |-> NoPort, s |-> NoPort,
               mda |-> FALSE]
    /\ pc = "idle"
    /\ err = "none"
    /\ exit_code = EXIT_FAILURE
    /\ options = "uninit"
    /\ parsed = FALSE
    /\ is_ipv4 = FALSE /\ is_ipv6 = FALSE /\ is_udp = FALSE /\ is_icmp = FALSE
    /\ algorithm_names = << "paris-traceroute", "mda" >>
    /\ protocol_names = << "udp", "icmp" >>
    /\ dst_port = << DEFAULT_DST_PORT, 0, UINT16_MAX, 0 >>
    /\ src_port = << DEFAULT_SRC_PORT, 0, UINT16_MAX, 1 >>
    /\ mda_is_set = FALSE
    /\ family = "uninit"
    /\ ip_protocol_name = "uninit"
    /\ protocol_name = "uninit"
    /\ algorithm_name = "uninit"
    /\ algorithm_options = "uninit"
    /\ dst_addr = FALSE
    /\ dst_ip_num = "uninit"
    /\ probe = "uninit"
    /\ loop = "uninit"
    /\ skel = EmptySkel
    /\ instance_added = FALSE
    /\ loop_ret = << >>
    /\ frees = << >>

IdleEnriched ==
    /\ use_json = TRUE
    /\ use_xml = TRUE
    /\ format = "DEFAULT"
    /\ is_first_result = TRUE
    /\ te_events = << >>
    /\ te_stdout = << >>
    /\ te_stderr = << >>

Init == InitMain /\ InitLoopHandler /\ IdleEnriched /\ IdleMapFree
Next == NextMain
Spec == Init /\ [][Next]_vars

InitLH == IdleMain /\ InitLoopHandler /\ IdleEnriched /\ IdleMapFree
NextLH == loop_handler
SpecLoopHandler == InitLH /\ [][NextLH]_vars

InitTE == IdleMain /\ InitLoopHandler /\ InitEnriched /\ IdleMapFree
NextTE == traceroute_enriched_handler
SpecEnriched == InitTE /\ [][NextTE]_vars

InitMF == IdleMain /\ InitLoopHandler /\ IdleEnriched /\ InitMapFree
NextMF == MapProbeFreeIter \/ MapProbeFreeReturn
SpecMapFree == InitMF /\ [][NextMF]_vars

\* ------------------------------------------------------------------------
\* Properties of main (checked under Spec)
\* ------------------------------------------------------------------------
\* The algorithm and transport the command line selects.
SelectedAlgorithm == IF argv.a = "none" THEN "paris-traceroute" ELSE argv.a
IcmpSelected == argv.I \/ argv.P = "icmp"
\* main has prepared the probe skeleton (lines 273-289 have run).
SkelPrepared == skel.dst_ip

\* Every step of main up to and including pt_loop succeeded.
AllStepsSucceeded ==
    /\ options = "live"
    /\ parsed
    /\ ~(argv.mda /\ SelectedAlgorithm # "mda")
    /\ ~(argv.opt4 /\ argv.opt6)
    /\ family \in Families
    /\ dst_addr
    /\ dst_ip_num \in {"live", "freed"}
    /\ probe \in {"live", "freed"}
    /\ loop \in {"live", "freed"}
    /\ instance_added
    /\ loop_ret # << >>
    /\ loop_ret[1] >= 0

\* C1: main holds exit code 0 only when every step (option parsing, the
\* consistency checks, family guess, resolution, probe and loop creation,
\* pt_algorithm_add, pt_loop >= 0) succeeded; when it exits after a failed
\* step the code is non-zero, and a run that faults never held code 0.
C1_ExitCode ==
    /\ exit_code = EXIT_SUCCESS => AllStepsSucceeded
    /\ pc = "exited" => (exit_code = EXIT_SUCCESS <=> AllStepsSucceeded)
    /\ pc = "crashed" => exit_code # EXIT_SUCCESS

\* C1 witness: every step but the last succeeded, the main loop was
\* interrupted, and main has exited with a non-zero code.
C1_Witness ==
    /\ pc = "exited"
    /\ instance_added
    /\ loop_ret = << 0 - 1 >>
    /\ exit_code = EXIT_FAILURE

\* C2 (as claimed): with UDP as transport the skeleton's dst_port is PORT
\* when -d is given, otherwise 53 when -U is given, otherwise 33457; the
\* src_port is the -s value or 33456.
C2_DstPort ==
    (SkelPrepared /\ ~is_icmp) =>
        /\ skel.dst_port = (IF argv.d # NoPort THEN argv.d
                            ELSE IF argv.U THEN DNS_PORT
                            ELSE DEFAULT_DST_PORT)
        /\ skel.src_port = (IF argv.s # NoPort THEN argv.s
                            ELSE DEFAULT_SRC_PORT)

\* C3: main jumps to ERR_INVALID_ALGORITHM if and only if the options were
\* parsed, an MDA option was passed and the selected algorithm is not "mda";
\* when it does, no probe, loop or algorithm instance exists, nothing has
\* been released and the exit code is non-zero.
C3_MdaOptionCheck ==
    /\ (err = "ERR_INVALID_ALGORITHM") <=>
          (parsed /\ pc # "check_mda" /\ argv.mda /\ SelectedAlgorithm # "mda")
    /\ err = "ERR_INVALID_ALGORITHM" =>
          /\ probe = "uninit" /\ loop = "uninit" /\ skel = EmptySkel
          /\ ~instance_added /\ loop_ret = << >> /\ frees = << >>
          /\ exit_code # EXIT_SUCCESS

\* C3 witness: a run with an MDA option and the default algorithm has been
\* rejected and has exited.
C3_Witness ==
    /\ pc = "exited"
    /\ err = "ERR_INVALID_ALGORITHM"
    /\ argv.mda /\ argv.a = "none"

\* C4 (as claimed): with both -I and -U on the command line main never calls
\* pt_algorithm_add or pt_loop and exits with a non-zero code.
C4_IcmpUdpRejected ==
    (argv.I /\ argv.U) =>
        /\ ~instance_added /\ err # "ERR_INSTANCE"
        /\ loop_ret = << >>
        /\ pc = "exited" => exit_code # EXIT_SUCCESS

\* C5 (as claimed): whenever probe_set_protocols is reached protocol_name has
\* been assigned, and the name it receives is "udp" for UDP, "icmpv4" for
\* ICMP over IPv4 and "icmpv6" for ICMP over IPv6.
C5_ProtocolName ==
    /\ pc = "prepare_probe" => protocol_name # "uninit"
    /\ (SkelPrepared /\ ~(argv.I /\ argv.U)) =>
          skel.protocol = (IF ~IcmpSelected THEN "udp"
                           ELSE IF family = "AF_INET" THEN "icmpv4"
                           ELSE "icmpv6")

\* C9 (as claimed): every release is applied to something that was acquired
\* and is still held, and at exit every probe and loop that was created has
\* been freed.
C9_Cleanup ==
    /\ \A i \in DOMAIN frees : frees[i].arg = "live"
    /\ pc = "exited" => (probe # "live" /\ loop # "live"
                         /\ dst_ip_num # "live")

\* C10 (as claimed): with ICMP selected and -U absent main sets neither port
\* on the skeleton and does not resize the payload.
C10_IcmpNoPorts ==
    (SkelPrepared /\ IcmpSelected /\ ~argv.U) =>
        /\ skel.dst_port = NoPort
        /\ skel.src_port = NoPort
        /\ skel.payload = NoPort

\* ------------------------------------------------------------------------
\* Properties of loop_handler (checked under SpecLoopHandler)
\* ------------------------------------------------------------------------
RECURSIVE CountTerminated(_)
CountTerminated(events) ==
    IF events = << >> THEN 0
    ELSE (IF events[Len(events)].type = "ALGORITHM_TERMINATED" THEN 1 ELSE 0)
         + CountTerminated(SubSeq(events, 1, Len(events) - 1))

\* C6: after any sequence of events the number of pt_loop_terminate calls
\* equals the number of ALGORITHM_TERMINATED events delivered, whatever the
\* algorithm: one call per such event, none for any other event.
C6_TerminateOnlyOnTerminated ==
    lh_terminate = CountTerminated(lh_events)

\* C6 witness: a traceroute instance and an mda instance have both
\* terminated and an ALGORITHM_EVENT has been delivered as well.
C6_Witness ==
    /\ lh_terminate = 2
    /\ \E i \in DOMAIN lh_events :
         lh_events[i].type = "ALGORITHM_TERMINATED"
         /\ lh_events[i].algorithm = "traceroute"
    /\ \E i \in DOMAIN lh_events :
         lh_events[i].type = "ALGORITHM_TERMINATED"
         /\ lh_events[i].algorithm = "mda"
    /\ \E i \in DOMAIN lh_events : lh_events[i].type = "ALGORITHM_EVENT"

\* ------------------------------------------------------------------------
\* Properties of traceroute_enriched_handler (checked under SpecEnriched)
\* ------------------------------------------------------------------------
\* C7 (as claimed): the "Unhandled event" line is written only for event
\* types other than MDA_PROBE_REPLY, MDA_PROBE_TIMEOUT and MDA_ENDS.
C7_EndsNotUnhandled ==
    \A i \in DOMAIN te_stdout :
        te_stdout[i].tok = "unhandled" =>
            te_stdout[i].type \notin {"MDA_PROBE_REPLY", "MDA_PROBE_TIMEOUT",
                                      "MDA_ENDS"}

IsItemEvent(type) == type \in {"MDA_PROBE_REPLY", "MDA_PROBE_TIMEOUT"}
IsJsonTok(t) == t.tok \in {"reply", "star", "sep"}
ItemEvents == SelectSeq(te_events, IsItemEvent)
\* The reply / star / separator pieces of stdout, in order.
JsonStream == SelectSeq(te_stdout, IsJsonTok)

\* C8: in JSON format, after n reply/timeout events the stream holds n items
\* and n-1 separators, items and separators alternate starting and ending
\* with an item, the k-th item is a reply or a star as the k-th event was a
\* reply or a timeout, and is_first_result is true exactly while n = 0.
C8_JsonSeparators ==
    format = "JSON" =>
        LET n == Len(ItemEvents) IN
        /\ Len(JsonStream) = (IF n = 0 THEN 0 ELSE 2 * n - 1)
        /\ \A i \in DOMAIN JsonStream :
             IF i % 2 = 0
             THEN JsonStream[i].tok = "sep"
             ELSE JsonStream[i].tok =
                    (IF ItemEvents[(i + 1) \div 2] = "MDA_PROBE_REPLY"
                     THEN "reply" ELSE "star")
        /\ is_first_result = (n = 0)

\* C8 witness: JSON format, three items written, replies and timeouts mixed.
C8_Witness ==
    /\ format = "JSON"
    /\ Len(ItemEvents) = 3
    /\ \E i \in DOMAIN ItemEvents : ItemEvents[i] = "MDA_PROBE_REPLY"
    /\ \E i \in DOMAIN ItemEvents : ItemEvents[i] = "MDA_PROBE_TIMEOUT"

\* ------------------------------------------------------------------------
\* Properties of map_probe_free (checked under SpecMapFree)
\* ------------------------------------------------------------------------
\* C11 (as claimed): once map_probe_free has returned, the vector under
\* every ttl key of the map, the key equal to max_ttl included, has been
\* freed exactly once.
C11_AllVectorsFreed ==
    mf_pc = "returned" => \A k \in DOMAIN mf_frees : mf_frees[k] = 1

====
